---- MODULE Spec2Model ----
(***************************************************************************)
(* Model of the composite checkers of node-uri (lib/checkers/index.js).    *)
(*                                                                         *)
(* A JavaScript string is a sequence of one-character strings; index i of  *)
(* the code (0-based) is element i+1 of the sequence.  The JavaScript      *)
(* value undefined is the one-element sequence <<"undefined">>, which no   *)
(* string of characters equals.                                            *)
(***************************************************************************)
EXTENDS Integers, Sequences, FiniteSets, TLC

VARIABLES
  uri,        \* the argument of the checker
  uriType,    \* typeof uri: "string" or another type
  entry,      \* the exported function that was called
  options,    \* the options record { https, web, sitemap } of the call
  index,      \* checkPercentEncoding: argument index
  stringLen,  \* checkPercentEncoding: argument stringLen
  offset,     \* checkPercentEncoding: the offset returned
  pc,         \* position of the call in the pipeline
  rec,        \* the components destructured from parseURI
  result      \* "none" while running, "valid", or the code of the URIError

vars == <<uri, uriType, entry, options, index, stringLen, offset, pc, rec, result>>

-----------------------------------------------------------------------------
(* Bounds of the input space.                                              *)

MaxStrLen == 4
MaxTokens == 2

-----------------------------------------------------------------------------
(* JavaScript values.                                                      *)

undefined == <<"undefined">>

isString(x) == x # undefined

exists(x) == x # undefined

Num(n) == [type |-> "number", n |-> n]

NotNum == [type |-> "undefined", n |-> 0]

isNumber(v) == v.type = "number"

\* string[i] of JavaScript: undefined outside the string
charAt(s, i) == IF i >= 0 /\ i < Len(s) THEN s[i + 1] ELSE "undefined"

\* string.substring(a, b) for 0 <= a <= b
substring(s, a, b) ==
  LET e == IF b > Len(s) THEN Len(s) ELSE b
  IN  IF a >= e THEN <<>> ELSE SubSeq(s, a + 1, e)

startsWith(s, p) == Len(s) >= Len(p) /\ SubSeq(s, 1, Len(p)) = p

SeqsUpTo(S, n) == UNION {[1..k -> S] : k \in 0..n}

-----------------------------------------------------------------------------
(* Character classifier (lib/checkers/chars).                              *)

Lower == {"a","b","c","d","e","f","g","h","i","j","k","l","m",
          "n","o","p","q","r","s","t","u","v","w","x","y","z"}

Upper == {"A","B","C","D","E","F","G","H","I","J","K","L","M",
          "N","O","P","Q","R","S","T","U","V","W","X","Y","Z"}

Digit == {"0","1","2","3","4","5","6","7","8","9"}

HexDigit == Digit \cup {"A","B","C","D","E","F"} \cup {"a","b","c","d","e","f"}

Unreserved == Lower \cup Upper \cup Digit \cup {"-", ".", "_", "~"}

SubDelims == {"!", "$", "&", "'", "(", ")", "*", "+", ",", ";", "="}

isSchemeChar(c, start) ==
  IF start THEN c \in Lower \cup Upper
  ELSE c \in Lower \cup Upper \cup Digit \cup {"+", "-", "."}

isPercentEncodingChar(c) == c \in HexDigit

\* userinfo and pathqf hold percent-encodings, which the checkers validate
\* after the character has been classified: '%' is of both classes; '#' is
\* the fragment delimiter folded into pathqf
isUserinfoChar(c) == c \in Unreserved \cup SubDelims \cup {":", "%"}

isURIChar(c) == c \in Unreserved \cup SubDelims \cup {":", "@", "/", "?", "#", "%"}

-----------------------------------------------------------------------------
(* checkPercentEncoding(string, index, stringLen)                          *)

Ok(n) == [err |-> "none", offset |-> n]

Fail(code) == [err |-> code, offset |-> 0]

\* faulty variant: one character after the '%' is taken for enough
checkPercentEncodingLoose(stringIsString, string, idx, sLen) ==
  IF ~stringIsString THEN Fail("URI_INVALID_PERCENT_ENCODING")
  ELSE
    LET len == IF isNumber(sLen) /\ sLen.n >= 0 THEN sLen.n ELSE Len(string)
        i == IF isNumber(idx) /\ idx.n < len THEN idx.n ELSE 0
    IN  IF len > 0 /\ charAt(string, i) = "%"
        THEN IF i + 1 < len
             THEN IF ~isPercentEncodingChar(charAt(string, i + 1))
                  THEN Fail("URI_INVALID_PERCENT_ENCODING")
                  ELSE IF i + 2 < len /\ ~isPercentEncodingChar(charAt(string, i + 2))
                  THEN Fail("URI_INVALID_PERCENT_ENCODING")
                  ELSE Ok(2)
             ELSE Fail("URI_INVALID_PERCENT_ENCODING")
        ELSE Ok(0)

checkPercentEncoding(stringIsString, string, idx, sLen) ==
  IF ~stringIsString THEN Fail("URI_INVALID_PERCENT_ENCODING")
  ELSE
    LET len == IF isNumber(sLen) /\ sLen.n >= 0 THEN sLen.n ELSE Len(string)
        i == IF isNumber(idx) /\ idx.n < len THEN idx.n ELSE 0
    IN  IF len > 0 /\ charAt(string, i) = "%"
        THEN IF i + 2 < len
             THEN IF ~isPercentEncodingChar(charAt(string, i + 1))
                  THEN Fail("URI_INVALID_PERCENT_ENCODING")
                  ELSE IF ~isPercentEncodingChar(charAt(string, i + 2))
                  THEN Fail("URI_INVALID_PERCENT_ENCODING")
                  ELSE Ok(2)
             ELSE Fail("URI_INVALID_PERCENT_ENCODING")
        ELSE Ok(0)

-----------------------------------------------------------------------------
(* URI grammar parser (lib/parser): parseURI(uri).  It parses permissively *)
(* and leaves every rejection to the checkers.                             *)

\* least index k >= 1 of s with s[k] in S, 0 when there is none
FirstIndex(s, S) ==
  LET I == {k \in 1..Len(s) : s[k] \in S}
  IN  IF I = {} THEN 0 ELSE CHOOSE k \in I : \A j \in I : k <= j

\* greatest index k of s with s[k] in S, 0 when there is none
LastIndex(s, S) ==
  LET I == {k \in 1..Len(s) : s[k] \in S}
  IN  IF I = {} THEN 0 ELSE CHOOSE k \in I : \A j \in I : k >= j

Tail_(s, k) == IF k > Len(s) THEN <<>> ELSE SubSeq(s, k, Len(s))

Head_(s, k) == IF k < 1 THEN <<>> ELSE SubSeq(s, 1, k)

\* host[:port]: the port follows the last ':' outside a bracketed literal
splitHostPort(hostport) ==
  LET rb == FirstIndex(hostport, {"]"})
      col == IF Len(hostport) > 0 /\ hostport[1] = "["
             THEN IF rb > 0 /\ rb < Len(hostport) /\ hostport[rb + 1] = ":"
                  THEN rb + 1 ELSE 0
             ELSE LastIndex(hostport, {":"})
  IN  IF col = 0
      THEN [host |-> hostport, port |-> undefined]
      ELSE [host |-> Head_(hostport, col - 1), port |-> Tail_(hostport, col + 1)]

withUserinfo(userinfo, hp) ==
  [userinfo |-> userinfo, host |-> hp.host, port |-> hp.port]

\* [userinfo@]host[:port]: the userinfo is what comes before the last '@'
parseAuthority(authority) ==
  LET at == LastIndex(authority, {"@"})
  IN  withUserinfo(IF at = 0 THEN undefined ELSE Head_(authority, at - 1),
                   splitHostPort(Tail_(authority, at + 1)))

\* scheme ":" rest: the scheme is the prefix up to the first ':'
splitScheme(u) ==
  LET c == FirstIndex(u, {":"})
  IN  [scheme |-> IF c = 0 THEN undefined ELSE Head_(u, c - 1),
       rest |-> IF c = 0 THEN u ELSE Tail_(u, c + 1)]

\* "//" authority, up to the next '/', '?', '#' or the end
splitAuthority(rest) ==
  LET after == Tail_(rest, 3)
      e == FirstIndex(after, {"/", "?", "#"})
  IN  IF ~startsWith(rest, <<"/", "/">>)
      THEN [authority |-> undefined, remaining |-> rest]
      ELSE IF e = 0
      THEN [authority |-> after, remaining |-> <<>>]
      ELSE [authority |-> Head_(after, e - 1), remaining |-> Tail_(after, e)]

\* "?" query "#" fragment, after the path
splitQuery(afterPath) ==
  LET h == FirstIndex(afterPath, {"#"})
  IN  [query |-> IF ~(Len(afterPath) > 0 /\ afterPath[1] = "?") THEN undefined
                 ELSE IF h = 0 THEN Tail_(afterPath, 2)
                 ELSE SubSeq(afterPath, 2, h - 1),
       fragment |-> IF h = 0 THEN undefined ELSE Tail_(afterPath, h + 1)]

\* path, up to the first '?' or '#'
splitPath(remaining) ==
  LET q == FirstIndex(remaining, {"?", "#"})
  IN  IF q = 0
      THEN [path |-> remaining, qf |-> splitQuery(<<>>)]
      ELSE [path |-> Head_(remaining, q - 1), qf |-> splitQuery(Tail_(remaining, q))]

joinPathqf(path, query, fragment) ==
  path
  \o (IF exists(query) THEN <<"?">> \o query ELSE <<>>)
  \o (IF exists(fragment) THEN <<"#">> \o fragment ELSE <<>>)

NoAuthority == [userinfo |-> undefined, host |-> undefined, port |-> undefined]

components(scheme, authority, a, p) ==
  [scheme |-> scheme,
   authority |-> authority,
   \* the hosts of the model are ASCII without an xn-- label: the
   \* punydecoded view of such a host is the host itself
   authorityPunydecoded |-> authority,
   userinfo |-> a.userinfo,
   host |-> a.host,
   hostPunydecoded |-> a.host,
   port |-> a.port,
   path |-> p.path,
   pathqf |-> joinPathqf(p.path, p.qf.query, p.qf.fragment),
   query |-> p.qf.query,
   fragment |-> p.qf.fragment]

parseAfterAuthority(scheme, sa) ==
  components(scheme, sa.authority,
             IF exists(sa.authority) THEN parseAuthority(sa.authority) ELSE NoAuthority,
             splitPath(sa.remaining))

parseAfterScheme(ss) == parseAfterAuthority(ss.scheme, splitAuthority(ss.rest))

parseURI(u) == parseAfterScheme(splitScheme(u))

\* the components before parseURI has run
NoRec == parseURI(<<>>)

-----------------------------------------------------------------------------
(* IP and domain validators (lib/ip, lib/domain) and the integer cast      *)
(* (lib/helpers).                                                          *)

RECURSIVE Split(_, _)
Split(s, sep) ==
  LET k == FirstIndex(s, {sep})
  IN  IF k = 0 THEN <<s>> ELSE <<Head_(s, k - 1)>> \o Split(Tail_(s, k + 1), sep)

DigitVal(c) == CHOOSE n \in 0..9 : <<"0","1","2","3","4","5","6","7","8","9">>[n + 1] = c

RECURSIVE Decimal(_)
Decimal(s) ==
  IF s = <<>> THEN 0 ELSE Decimal(Head_(s, Len(s) - 1)) * 10 + DigitVal(s[Len(s)])

isDigits(s) == Len(s) > 0 /\ \A k \in 1..Len(s) : s[k] \in Digit

\* IPv4: four decimal groups of 0..255 without a leading zero.  An IPv6
\* literal holds a ':' or a '[', which no host without brackets has once
\* the port is split off.
isIP(host) ==
  LET groups == Split(host, ".")
  IN  /\ Len(groups) = 4
      /\ \A k \in 1..4 :
           /\ isDigits(groups[k])
           /\ Len(groups[k]) <= 3
           /\ (Len(groups[k]) > 1 => groups[k][1] # "0")
           /\ Decimal(groups[k]) <= 255

isDomain(host) ==
  LET labels == Split(host, ".")
  IN  /\ Len(host) <= 253
      /\ \A k \in 1..Len(labels) :
           LET label == labels[k]
           IN  /\ Len(label) >= 1
               /\ Len(label) <= 63
               /\ \A j \in 1..Len(label) :
                    label[j] \in Lower \cup Upper \cup Digit \cup {"-"}
               /\ label[1] # "-"
               /\ label[Len(label)] # "-"

\* int(port) === undefined
intIsUndefined(port) == ~isDigits(port)

-----------------------------------------------------------------------------
(* Sitemap entity table (lib/sitemap).                                     *)

escapeCodesKeys ==
  << <<"&","a","m","p",";">>,
     <<"&","l","t",";">>,
     <<"&","g","t",";">>,
     <<"&","q","u","o","t",";">>,
     <<"&","a","p","o","s",";">> >>

escapeCodesKeysLen == Len(escapeCodesKeys)

entitiesKeys == {"&", "<", ">", "\"", "'"}

-----------------------------------------------------------------------------
(* checkURISyntax(uri): the code of the URIError thrown, "none" when the   *)
(* record is returned.                                                     *)

\* faulty variant: a path starting with '//' passes without an authority
syntaxErrorNoDoubleSlash(r) ==
  LET schemeLen == IF isString(r.scheme) THEN Len(r.scheme) ELSE 0
  IN  IF ~isString(r.scheme) THEN "URI_MISSING_SCHEME"
      ELSE IF schemeLen <= 0 THEN "URI_EMPTY_SCHEME"
      ELSE IF ~isString(r.path) THEN "URI_MISSING_PATH"
      ELSE IF isString(r.authority) /\ Len(r.authority) > 0
              /\ ~(r.path = <<>> \/ startsWith(r.path, <<"/">>))
      THEN "URI_INVALID_PATH"
      ELSE IF ~exists(r.authority) /\ exists(r.authorityPunydecoded)
      THEN "URI_INVALID_HOST"
      ELSE "none"

syntaxError(r) ==
  LET schemeLen == IF isString(r.scheme) THEN Len(r.scheme) ELSE 0
  IN  IF ~isString(r.scheme) THEN "URI_MISSING_SCHEME"
      ELSE IF schemeLen <= 0 THEN "URI_EMPTY_SCHEME"
      ELSE IF ~isString(r.path) THEN "URI_MISSING_PATH"
      ELSE IF isString(r.authority) /\ Len(r.authority) > 0
      THEN IF ~(r.path = <<>> \/ startsWith(r.path, <<"/">>))
           THEN "URI_INVALID_PATH"
           ELSE IF ~exists(r.authority) /\ exists(r.authorityPunydecoded)
           THEN "URI_INVALID_HOST"
           ELSE "none"
      ELSE IF startsWith(r.path, <<"/", "/">>) THEN "URI_INVALID_PATH"
      ELSE IF ~exists(r.authority) /\ exists(r.authorityPunydecoded)
      THEN "URI_INVALID_HOST"
      ELSE "none"

checkURISyntax(type, u) ==
  IF type # "string" THEN "URI_INVALID_TYPE" ELSE syntaxError(parseURI(u))

-----------------------------------------------------------------------------
(* checkURI(uri, { sitemap }): the stages after checkURISyntax.            *)

\* faulty variant: the first character is classified like the others
checkSchemeCharsNoStart(scheme) ==
  LET schemeLen == Len(scheme)
      bad == {i \in 0..(schemeLen - 1) : ~isSchemeChar(charAt(scheme, i), FALSE)}
  IN  IF bad = {} THEN "none" ELSE "URI_INVALID_SCHEME_CHAR"

checkSchemeChars(scheme) ==
  LET schemeLen == Len(scheme)
      bad == {i \in 0..(schemeLen - 1) : ~isSchemeChar(charAt(scheme, i), i = 0)}
  IN  IF bad = {} THEN "none" ELSE "URI_INVALID_SCHEME_CHAR"

\* the userinfo loop from index i on
RECURSIVE scanUserinfo(_, _)
scanUserinfo(userinfo, i) ==
  LET userinfoLen == IF isString(userinfo) THEN Len(userinfo) ELSE 0
  IN  IF ~(i < userinfoLen) THEN "none"
      ELSE IF ~isUserinfoChar(charAt(userinfo, i)) THEN "URI_INVALID_USERINFO_CHAR"
      ELSE LET r == checkPercentEncoding(TRUE, userinfo, Num(i), Num(userinfoLen))
           IN  IF r.err # "none" THEN r.err
               ELSE scanUserinfo(userinfo, i + r.offset + 1)

checkHost(host) ==
  IF ~isIP(host) /\ ~isDomain(host) THEN "URI_INVALID_HOST" ELSE "none"

checkPort(port) ==
  IF exists(port) /\ intIsUndefined(port) THEN "URI_INVALID_PORT" ELSE "none"

\* faulty variant: an escape code must end before the end of pathqf
escapeOffsetAtStrict(pathqf, i) ==
  LET pathqfLen == Len(pathqf)
      M == {k \in 1..Len(escapeCodesKeys) :
              LET escapeLen == Len(escapeCodesKeys[k])
              IN  /\ i + escapeLen < pathqfLen
                  /\ escapeCodesKeys[k] = substring(pathqf, i, i + escapeLen)}
  IN  IF M = {} THEN 0
      ELSE Len(escapeCodesKeys[CHOOSE k \in M : \A j \in M : k <= j])

\* the length of the first escape code found at index i of pathqf, 0 when
\* escapeOffset stays undefined
escapeOffsetAt(pathqf, i) ==
  LET pathqfLen == Len(pathqf)
      M == {k \in 1..escapeCodesKeysLen :
              LET escapeLen == Len(escapeCodesKeys[k])
              IN  /\ i + escapeLen <= pathqfLen
                  /\ escapeCodesKeys[k] = substring(pathqf, i, i + escapeLen)}
  IN  IF M = {} THEN 0
      ELSE Len(escapeCodesKeys[CHOOSE k \in M : \A j \in M : k <= j])

\* faulty variant: the index is advanced by the whole length of the escape code
sitemapStepLongSkip(pathqf, i) ==
  IF charAt(pathqf, i) = "&"
  THEN IF escapeOffsetAt(pathqf, i) = 0
       THEN [err |-> "URI_INVALID_SITEMAP_CHAR", i |-> i]
       ELSE [err |-> "none", i |-> i + escapeOffsetAt(pathqf, i)]
  ELSE IF charAt(pathqf, i) \in entitiesKeys
       THEN [err |-> "URI_INVALID_SITEMAP_CHAR", i |-> i]
       ELSE [err |-> "none", i |-> i]

\* the sitemap check of one iteration, at index i: the error and the index
\* the iteration ends at
sitemapStep(pathqf, i) ==
  IF charAt(pathqf, i) = "&"
  THEN LET escapeOffset == escapeOffsetAt(pathqf, i)
       IN  IF escapeOffset = 0
           THEN [err |-> "URI_INVALID_SITEMAP_CHAR", i |-> i]
           ELSE [err |-> "none", i |-> i + escapeOffset - 1]
  ELSE IF charAt(pathqf, i) \in entitiesKeys
       THEN [err |-> "URI_INVALID_SITEMAP_CHAR", i |-> i]
       ELSE [err |-> "none", i |-> i]

\* faulty variant: a percent-encoding advances the index by three
pathqfStepLongSkip(pathqf, i, checkSitemap) ==
  IF ~isURIChar(charAt(pathqf, i)) THEN [err |-> "URI_INVALID_CHAR", i |-> i]
  ELSE LET r == checkPercentEncoding(TRUE, pathqf, Num(i), Num(Len(pathqf)))
           skip == IF r.offset = 0 THEN 0 ELSE r.offset + 1
       IN  IF r.err # "none" THEN [err |-> r.err, i |-> i]
           ELSE IF checkSitemap THEN sitemapStep(pathqf, i + skip)
           ELSE [err |-> "none", i |-> i + skip]

\* one iteration of the pathqf loop, entered at index i
pathqfStep(pathqf, i, checkSitemap) ==
  IF ~isURIChar(charAt(pathqf, i)) THEN [err |-> "URI_INVALID_CHAR", i |-> i]
  ELSE LET r == checkPercentEncoding(TRUE, pathqf, Num(i), Num(Len(pathqf)))
       IN  IF r.err # "none" THEN [err |-> r.err, i |-> i]
           ELSE IF checkSitemap THEN sitemapStep(pathqf, i + r.offset)
           ELSE [err |-> "none", i |-> i + r.offset]

RECURSIVE scanPathqf(_, _, _)
scanPathqf(pathqf, i, checkSitemap) ==
  LET pathqfLen == IF isString(pathqf) THEN Len(pathqf) ELSE 0
  IN  IF ~(i < pathqfLen) THEN "none"
      ELSE LET s == pathqfStep(pathqf, i, checkSitemap)
           IN  IF s.err # "none" THEN s.err
               ELSE scanPathqf(pathqf, s.i + 1, checkSitemap)

-----------------------------------------------------------------------------
(* checkHttpURL(uri, { https, web, sitemap }) and its aliases.             *)

\* JavaScript values an option is given: undefined (absent), false, true, 1
JSValues == {"undefined", "false", "true", "1"}

http == <<"h","t","t","p">>

https == <<"h","t","t","p","s">>

\* faulty variant: both schemes are allowed by default
schemesToCheckDefaultWeb(o) ==
  IF o.https = "true" THEN {https}
  ELSE {http, https}

\* faulty variant: web is tested before https
schemesToCheckWebFirst(o) ==
  IF o.web = "true" THEN {http, https}
  ELSE IF o.https = "true" THEN {https}
  ELSE {http}

schemesToCheck(o) ==
  IF o.https = "true" THEN {https}
  ELSE IF o.web = "true" THEN {http, https}
  ELSE {http}

checkSchemeRestriction(o, scheme) ==
  IF scheme \notin schemesToCheck(o) THEN "URI_INVALID_SCHEME" ELSE "none"

checkAuthorityPresence(authority) ==
  IF ~isString(authority) THEN "URI_MISSING_AUTHORITY" ELSE "none"

NoOptions == [https |-> "undefined", web |-> "undefined", sitemap |-> "undefined"]

\* the options record each alias passes to checkHttpURL
aliasOptions(fn) ==
  CASE fn = "checkHttpsURL" -> [NoOptions EXCEPT !.https = "true"]
    [] fn = "checkHttpSitemapURL" -> [NoOptions EXCEPT !.sitemap = "true"]
    [] fn = "checkHttpsSitemapURL" -> [NoOptions EXCEPT !.https = "true", !.sitemap = "true"]
    [] fn = "checkWebURL" -> [NoOptions EXCEPT !.web = "true"]
    [] fn = "checkSitemapURL" -> [NoOptions EXCEPT !.web = "true", !.sitemap = "true"]

Aliases == {"checkHttpsURL", "checkHttpSitemapURL", "checkHttpsSitemapURL",
            "checkWebURL", "checkSitemapURL"}

HttpEntries == Aliases \cup {"checkHttpURL"}

\* checkURI after checkURISyntax has returned the components r
checkComponents(r, checkSitemap) ==
  IF checkSchemeChars(r.scheme) # "none" THEN checkSchemeChars(r.scheme)
  ELSE IF exists(r.authority) /\ scanUserinfo(r.userinfo, 0) # "none"
  THEN scanUserinfo(r.userinfo, 0)
  ELSE IF exists(r.authority) /\ checkHost(r.host) # "none" THEN checkHost(r.host)
  ELSE IF exists(r.authority) /\ checkPort(r.port) # "none" THEN checkPort(r.port)
  ELSE scanPathqf(r.pathqf, 0, checkSitemap)

\* checkURI(uri, { sitemap }) as a function: the code thrown, or "none"
checkURI(type, u, sitemap) ==
  IF checkURISyntax(type, u) # "none" THEN checkURISyntax(type, u)
  ELSE checkComponents(parseURI(u), sitemap = "true")

\* checkHttpURL after checkURI has returned the components r
checkRestrictions(o, r) ==
  IF checkSchemeRestriction(o, r.scheme) # "none"
  THEN checkSchemeRestriction(o, r.scheme)
  ELSE checkAuthorityPresence(r.authority)

\* checkHttpURL(uri, { https, web, sitemap }) as a function
checkHttpURL(type, u, o) ==
  IF checkURI(type, u, o.sitemap) # "none" THEN checkURI(type, u, o.sitemap)
  ELSE checkRestrictions(o, parseURI(u))

-----------------------------------------------------------------------------
(* The inputs of the calls.                                                *)

RECURSIVE Flatten(_)
Flatten(ss) == IF ss = <<>> THEN <<>> ELSE Head(ss) \o Flatten(Tail(ss))

\* strings given to checkPercentEncoding
PctAlphabet == {"%", "a", "G"}

PctExamples ==
  {
    <<"%">>,
    <<"%","A">>,
    <<"%","G","G">>,
    <<"%","2","G">>,
    <<"%","2","0">>,
    <<"%","C","3","%","B","C">> 
  }

PctStrings == SeqsUpTo(PctAlphabet, MaxStrLen) \cup PctExamples

PctNumbers == {NotNum} \cup {Num(n) : n \in (0 - 1)..(MaxStrLen + 2)}

\* pieces a pathqf is put together from
PathTokens ==
  {
    <<"b">>,
    <<"G">>,
    <<"2">>,
    <<";">>,
    <<"%">>,
    <<"%","2">>,
    <<"%","2","0">>,
    <<"&">>,
    <<"<">>,
    <<">">>,
    <<"\"">>,
    <<"'">>,
    <<"&","a","m","p",";">>,
    <<"&","l","t",";">>,
    <<"&","g","t",";">>,
    <<"&","q","u","o","t",";">>,
    <<"&","a","p","o","s",";">>,
    <<"&","a","m","p">> 
  }

PathBodies == {Flatten(ts) : ts \in SeqsUpTo(PathTokens, MaxTokens)}

\* what comes before the scanned part of the path
ScanPrefixes ==
  {
    <<"h","t","t","p",":","/","/","e","x","a","m","p","l","e",".","c","o","m","/","a">>,
    <<"m","a","i","l","t","o",":">> 
  }

ScanURIs == {p \o b : p \in ScanPrefixes, b \in PathBodies}

\* scheme with its ':' (the last one has neither)
SchemeInputs ==
  {
    <<"h","t","t","p",":">>,
    <<"h","t","t","p","s",":">>,
    <<"H","T","T","P",":">>,
    <<"H","T","T","P","S",":">>,
    <<"m","a","i","l","t","o",":">>,
    <<"1","h","t","t","p",":">>,
    <<":">>,
    <<>> 
  }

\* "//" authority, or nothing
AuthorityInputs ==
  {
    <<>>,
    <<"/","/","e","x","a","m","p","l","e",".","c","o","m">>,
    <<"/","/">>,
    <<"/","/","u","s","e","r","@","e","x","a","m","p","l","e",".","c","o","m">>,
    <<"/","/","u","%","2","0","@","e","x","a","m","p","l","e",".","c","o","m">>,
    <<"/","/","u","%","2","@","e","x","a","m","p","l","e",".","c","o","m">>,
    <<"/","/","u","<","@","e","x","a","m","p","l","e",".","c","o","m">>,
    <<"/","/","e","x","a","_","m","p","l","e",".","c","o","m">>,
    <<"/","/","e","x","a","m","p","l","e",".","c","o","m",":","8","0">>,
    <<"/","/","e","x","a","m","p","l","e",".","c","o","m",":","8","a">>,
    <<"/","/","1","2","7",".","0",".","0",".","1">> 
  }

PathInputs ==
  {
    <<>>,
    <<"/">>,
    <<"/","a">>,
    <<"/","/","a">>,
    <<"a">>,
    <<"/","<">>,
    <<"/","%","2">>,
    <<"/","a","?","b","#","c">>,
    <<"/","a","&","b">> 
  }

PartURIs == {s \o a \o p : s \in SchemeInputs, a \in AuthorityInputs, p \in PathInputs}

\* a call: the function and its options
Call(fn, o) == [fn |-> fn, options |-> o]

ScanCalls ==
  {Call("checkURI", [NoOptions EXCEPT !.sitemap = v]) : v \in {"true", "undefined"}}
  \cup {Call("checkSitemapURL", aliasOptions("checkSitemapURL"))}

PartCalls ==
  {Call("checkURISyntax", NoOptions)}
  \cup {Call("checkURI", [NoOptions EXCEPT !.sitemap = v]) : v \in JSValues}
  \cup {Call("checkHttpURL", [https |-> h, web |-> w, sitemap |-> s]) :
          h \in JSValues, w \in JSValues, s \in {"undefined", "true"}}
  \cup {Call(fn, aliasOptions(fn)) : fn \in Aliases}

-----------------------------------------------------------------------------
(* The calls as state machines.                                            *)

InitCall(u, type, c) ==
  /\ uri = u
  /\ uriType = type
  /\ entry = c.fn
  /\ options = c.options
  /\ index = NotNum
  /\ stringLen = NotNum
  /\ offset = 0
  /\ pc = "start"
  /\ rec = NoRec
  /\ result = "none"

Init ==
  \/ \E u \in ScanURIs, c \in ScanCalls : InitCall(u, "string", c)
  \/ \E u \in PartURIs, c \in PartCalls : InitCall(u, "string", c)
  \/ \E c \in PartCalls : InitCall(undefined, "number", c)

\* throw, or go on with the next stage
Continue(err, next) ==
  IF err # "none"
  THEN /\ result' = err
       /\ pc' = "done"
  ELSE /\ result' = "none"
       /\ pc' = next

\* throw, or return the record
Return(err) ==
  /\ result' = IF err # "none" THEN err ELSE "valid"
  /\ pc' = "done"

Inputs == <<uri, uriType, entry, options, index, stringLen, offset>>

CheckSyntax ==
  /\ pc = "start"
  /\ entry # "checkPercentEncoding"
  /\ rec' = IF uriType = "string" THEN parseURI(uri) ELSE NoRec
  /\ IF entry = "checkURISyntax"
     THEN Return(checkURISyntax(uriType, uri))
     ELSE Continue(checkURISyntax(uriType, uri), "schemeChars")
  /\ UNCHANGED Inputs

CheckSchemeChars ==
  /\ pc = "schemeChars"
  /\ Continue(checkSchemeChars(rec.scheme),
              IF exists(rec.authority) THEN "userinfo" ELSE "pathqf")
  /\ UNCHANGED <<Inputs, rec>>

CheckUserinfo ==
  /\ pc = "userinfo"
  /\ Continue(scanUserinfo(rec.userinfo, 0), "host")
  /\ UNCHANGED <<Inputs, rec>>

CheckHost ==
  /\ pc = "host"
  /\ Continue(checkHost(rec.host), "port")
  /\ UNCHANGED <<Inputs, rec>>

CheckPort ==
  /\ pc = "port"
  /\ Continue(checkPort(rec.port), "pathqf")
  /\ UNCHANGED <<Inputs, rec>>

CheckPathqf ==
  /\ pc = "pathqf"
  /\ LET err == scanPathqf(rec.pathqf, 0, options.sitemap = "true")
     IN  IF entry = "checkURI" THEN Return(err) ELSE Continue(err, "scheme")
  /\ UNCHANGED <<Inputs, rec>>

\* faulty variant: the authority is required before the scheme is restricted
CheckSchemeAuthorityFirst ==
  /\ pc = "scheme"
  /\ Continue(IF checkAuthorityPresence(rec.authority) # "none"
              THEN checkAuthorityPresence(rec.authority)
              ELSE checkSchemeRestriction(options, rec.scheme),
              "authority")
  /\ UNCHANGED <<Inputs, rec>>

CheckScheme ==
  /\ pc = "scheme"
  /\ Continue(checkSchemeRestriction(options, rec.scheme), "authority")
  /\ UNCHANGED <<Inputs, rec>>

CheckAuthority ==
  /\ pc = "authority"
  /\ Return(checkAuthorityPresence(rec.authority))
  /\ UNCHANGED <<Inputs, rec>>

Next ==
  \/ CheckSyntax
  \/ CheckSchemeChars
  \/ CheckUserinfo
  \/ CheckHost
  \/ CheckPort
  \/ CheckPathqf
  \/ CheckScheme
  \/ CheckAuthority

Spec == Init /\ [][Next]_vars

\* direct calls of checkPercentEncoding
InitPct ==
  /\ \/ \E s \in PctStrings : uri = s /\ uriType = "string"
     \/ uri = undefined /\ uriType = "number"
  /\ entry = "checkPercentEncoding"
  /\ options = NoOptions
  /\ index \in PctNumbers
  /\ stringLen \in PctNumbers
  /\ offset = 0
  /\ pc = "start"
  /\ rec = NoRec
  /\ result = "none"

CallCheckPercentEncoding ==
  /\ pc = "start"
  /\ entry = "checkPercentEncoding"
  /\ LET r == checkPercentEncoding(uriType = "string", uri, index, stringLen)
     IN  /\ result' = IF r.err # "none" THEN r.err ELSE "returned"
         /\ offset' = r.offset
  /\ pc' = "done"
  /\ UNCHANGED <<uri, uriType, entry, options, index, stringLen, rec>>

NextPct == CallCheckPercentEncoding

SpecPct == InitPct /\ [][NextPct]_vars

-----------------------------------------------------------------------------
(* Properties.                                                             *)

Done == pc = "done"

Valid == pc = "done" /\ result = "valid"

\* the call has gone through checkURI without a failure
URIAccepted ==
  /\ pc = "done"
  /\ \/ entry = "checkURI" /\ result = "valid"
     \/ entry \in HttpEntries
        /\ result \in {"valid", "URI_INVALID_SCHEME", "URI_MISSING_AUTHORITY"}

SitemapMode == entry \in HttpEntries \cup {"checkURI"} /\ options.sitemap = "true"

\* the arguments are in the domain of the claim
C1_InDomain ==
  /\ uriType = "string"
  /\ isNumber(index) /\ isNumber(stringLen)
  /\ 0 <= index.n /\ index.n < stringLen.n /\ stringLen.n <= Len(uri)

\* the call is about the whole string, from its first character
C1_WholeString ==
  /\ uriType = "string"
  /\ index \in {NotNum, Num(0)}
  /\ stringLen \in {NotNum, Num(Len(uri))}

\* C1: checkPercentEncoding(s, i, len) with 0 <= i < len <= length(s)
\* returns 0 when s[i] is not '%', returns 2 when s[i] is '%', i+2 < len and
\* both following characters are hex digits, and fails with
\* URI_INVALID_PERCENT_ENCODING in every other case; it fails for "%", "%A",
\* "%GG", "%2G" and returns 2 for "%20" and for "%C3%BC" at index 0.
C1_PercentEncodingOutcomes ==
  /\ (Done /\ C1_InDomain) =>
       IF uri[index.n + 1] # "%"
       THEN result = "returned" /\ offset = 0
       ELSE IF /\ index.n + 2 < stringLen.n
               /\ uri[index.n + 2] \in HexDigit
               /\ uri[index.n + 3] \in HexDigit
       THEN result = "returned" /\ offset = 2
       ELSE result = "URI_INVALID_PERCENT_ENCODING"
  /\ (Done /\ C1_WholeString
        /\ uri \in {<<"%">>, <<"%","A">>, <<"%","G","G">>, <<"%","2","G">>}) =>
       result = "URI_INVALID_PERCENT_ENCODING"
  /\ (Done /\ C1_WholeString /\ uri \in {<<"%","2","0">>, <<"%","C","3","%","B","C">>}) =>
       result = "returned" /\ offset = 2

C1_Witness ==
  /\ Done
  /\ uri = <<"%","C","3","%","B","C">>
  /\ index = Num(0) /\ stringLen = Num(6)
  /\ result = "returned" /\ offset = 2

\* the five escape sequences of the sitemap entity table
EscapeSequences == {<<"&","a","m","p",";">>, <<"&","l","t",";">>, <<"&","g","t",";">>, <<"&","q","u","o","t",";">>, <<"&","a","p","o","s",";">>}

\* an escape sequence begins at element j of s
BeginsEscape(s, j) ==
  \E esc \in EscapeSequences :
    j + Len(esc) - 1 <= Len(s) /\ SubSeq(s, j, j + Len(esc) - 1) = esc

\* a '&' of s that begins no escape sequence
HasBareAmpersand(s) == \E j \in 1..Len(s) : s[j] = "&" /\ ~BeginsEscape(s, j)

HasRawEntity(s) == \E j \in 1..Len(s) : s[j] \in {"<", ">", "\"", "'"}

\* C3: in Sitemap mode, for a URI valid in every other respect, a '&' of
\* pathqf that begins none of the five escape sequences makes the check fail
\* with URI_INVALID_SITEMAP_CHAR, and a '&' that begins one is accepted, also
\* when the sequence ends at the end of pathqf; checkSitemapURL fails so for
\* "http://example.com/a&b" and succeeds for "http://example.com/a&amp;b".
C3_SitemapAmpersand ==
  /\ (Done /\ SitemapMode /\ checkURI(uriType, uri, "undefined") = "none") =>
       /\ HasBareAmpersand(rec.pathqf) => result = "URI_INVALID_SITEMAP_CHAR"
       /\ (~HasBareAmpersand(rec.pathqf) /\ ~HasRawEntity(rec.pathqf)) =>
            /\ result # "URI_INVALID_SITEMAP_CHAR"
            /\ URIAccepted
  /\ (Done /\ entry = "checkSitemapURL" /\ uri = <<"h","t","t","p",":","/","/","e","x","a","m","p","l","e",".","c","o","m","/","a","&","b">>) =>
       result = "URI_INVALID_SITEMAP_CHAR"
  /\ (Done /\ entry = "checkSitemapURL" /\ uri = <<"h","t","t","p",":","/","/","e","x","a","m","p","l","e",".","c","o","m","/","a","&","a","m","p",";","b">>) =>
       result = "valid"

C3_Witness ==
  /\ Valid
  /\ entry = "checkSitemapURL"
  /\ uri = <<"h","t","t","p",":","/","/","e","x","a","m","p","l","e",".","c","o","m","/","a","&","a","m","p",";">>

\* C4: in Sitemap mode no URI is accepted whose pathqf holds a raw '<', '>',
\* '"' or single quote, or a '&' outside an escape sequence, wherever the
\* character stands: the index skips never step over an unchecked character.
C4_NoRawEntityAccepted ==
  (SitemapMode /\ URIAccepted) =>
    /\ ~HasRawEntity(rec.pathqf)
    /\ ~HasBareAmpersand(rec.pathqf)

C4_Witness ==
  /\ Done
  /\ SitemapMode
  /\ rec.pathqf = <<"/","a","&","a","m","p",";","'">>
  /\ result = "URI_INVALID_SITEMAP_CHAR"

\* a '%' of s that is not followed by two hex digits inside s
HasBadPercent(s) ==
  \E j \in 1..Len(s) :
    /\ s[j] = "%"
    /\ ~(j + 2 <= Len(s) /\ s[j + 1] \in HexDigit /\ s[j + 2] \in HexDigit)

\* the percent-encodings checkURI looks at are malformed somewhere
C9_BadPercent ==
  \/ exists(rec.authority) /\ isString(rec.userinfo) /\ HasBadPercent(rec.userinfo)
  \/ HasBadPercent(rec.pathqf)

\* every character checkURI classifies is of its class
C9_CharsAllowed ==
  /\ \A j \in 1..Len(rec.pathqf) : isURIChar(rec.pathqf[j])
  /\ (exists(rec.authority) /\ isString(rec.userinfo)) =>
       \A j \in 1..Len(rec.userinfo) : isUserinfoChar(rec.userinfo[j])

\* C9: for every URI accepted by checkURI, with or without sitemap mode,
\* every '%' of userinfo and of pathqf is followed by two hex digits inside
\* the same component; a '%' with fewer than two characters after it, or
\* followed by a non-hex character, makes checkURI fail with
\* URI_INVALID_PERCENT_ENCODING, and a triplet at the very end is accepted.
C9_PercentEncodingsChecked ==
  /\ URIAccepted => ~C9_BadPercent
  /\ (Done /\ entry \in HttpEntries \cup {"checkURI"}
        /\ result = "URI_INVALID_PERCENT_ENCODING") => C9_BadPercent
  /\ (Done /\ entry \in HttpEntries \cup {"checkURI"}
        /\ options.sitemap # "true"
        /\ checkURISyntax(uriType, uri) = "none"
        /\ checkSchemeChars(rec.scheme) = "none"
        /\ (exists(rec.authority) =>
              checkHost(rec.host) = "none" /\ checkPort(rec.port) = "none")
        /\ C9_CharsAllowed
        /\ C9_BadPercent) =>
       result = "URI_INVALID_PERCENT_ENCODING"

C9_Witness ==
  /\ Valid
  /\ entry = "checkURI"
  /\ rec.pathqf = <<"/","a","%","2","0">>

\* the schemes checkHttpURL allows when at most one of https, web is true
C2_Allowed ==
  IF options.https = "true" THEN {<<"h","t","t","p","s">>}
  ELSE IF options.web = "true" THEN {<<"h","t","t","p">>, <<"h","t","t","p","s">>}
  ELSE {<<"h","t","t","p">>}

C2_OneOption == ~(options.https = "true" /\ options.web = "true")

\* C2: checkHttpURL with at most one of https, web set returns a success
\* record only when the scheme is in the allowed set and an authority is
\* present; for a URI checkURI accepts, a scheme outside the set fails with
\* URI_INVALID_SCHEME ("mailto:" passes checkURISyntax and is so rejected),
\* an allowed scheme without authority fails with URI_MISSING_AUTHORITY.
C2_HttpRestrictions ==
  (Done /\ entry \in HttpEntries /\ C2_OneOption) =>
    /\ result = "valid" =>
         /\ rec.scheme \in C2_Allowed
         /\ isString(rec.authority) /\ rec.authority # <<>>
    /\ (checkURI(uriType, uri, options.sitemap) = "none"
          /\ rec.scheme \notin C2_Allowed) =>
         result = "URI_INVALID_SCHEME"
    /\ (checkURI(uriType, uri, options.sitemap) = "none"
          /\ rec.scheme \in C2_Allowed
          /\ ~isString(rec.authority)) =>
         result = "URI_MISSING_AUTHORITY"
    /\ uri = <<"m","a","i","l","t","o",":">> =>
         /\ checkURISyntax(uriType, uri) = "none"
         /\ result = "URI_INVALID_SCHEME"

C2_Witness ==
  /\ Done
  /\ entry = "checkWebURL"
  /\ rec.scheme = <<"h","t","t","p","s">>
  /\ rec.authority = undefined
  /\ result = "URI_MISSING_AUTHORITY"

\* C5 as stated: every success record has, with an authority, a path that
\* is empty or starts with exactly one '/', and without one a path that does
\* not start with '//'.
C5_ExactlyOneSlash ==
  Valid =>
    IF isString(rec.authority)
    THEN \/ rec.path = <<>>
         \/ startsWith(rec.path, <<"/">>) /\ ~startsWith(rec.path, <<"/", "/">>)
    ELSE ~startsWith(rec.path, <<"/", "/">>)

\* C5 as amended: every success record has, with a non-empty authority, a
\* path that is empty or starts with '/' (a second '/' may follow), and
\* with no or an empty authority a path that does not start with '//'; a
\* violation is reported as URI_INVALID_PATH.
C5_PathAuthorityInvariant ==
  /\ Valid =>
       IF isString(rec.authority) /\ rec.authority # <<>>
       THEN rec.path = <<>> \/ rec.path[1] = "/"
       ELSE ~startsWith(rec.path, <<"/", "/">>)
  /\ (Done /\ uriType = "string" /\ isString(rec.scheme) /\ rec.scheme # <<>>
        /\ IF isString(rec.authority) /\ rec.authority # <<>>
           THEN ~(rec.path = <<>> \/ rec.path[1] = "/")
           ELSE startsWith(rec.path, <<"/", "/">>)) =>
       result = "URI_INVALID_PATH"

C5_Witness ==
  /\ Valid
  /\ rec.authority = <<"e","x","a","m","p","l","e",".","c","o","m">>
  /\ startsWith(rec.path, <<"/", "/">>)

\* C6 as stated: every success record of any checker, checkURISyntax
\* included, has a non-empty scheme whose first character is a letter.
C6_SchemeStartsWithLetter ==
  Valid =>
    /\ isString(rec.scheme) /\ rec.scheme # <<>>
    /\ rec.scheme[1] \in Lower \cup Upper

\* C6 as amended: every success record has a non-empty scheme, and every
\* success record of checkURI, checkHttpURL and the aliases has a scheme
\* whose first character is a letter (checkURISyntax does not look at the
\* characters of the scheme); a missing scheme fails with
\* URI_MISSING_SCHEME and an empty one with URI_EMPTY_SCHEME.
C6_SchemeInvariant ==
  /\ Valid =>
       /\ isString(rec.scheme) /\ rec.scheme # <<>>
       /\ entry # "checkURISyntax" => rec.scheme[1] \in Lower \cup Upper
  /\ (Done /\ uriType = "string" /\ ~isString(rec.scheme)) =>
       result = "URI_MISSING_SCHEME"
  /\ (Done /\ uriType = "string" /\ rec.scheme = <<>>) =>
       result = "URI_EMPTY_SCHEME"

C6_Witness ==
  /\ Done
  /\ entry = "checkURI"
  /\ rec.scheme = <<"1","h","t","t","p">>
  /\ result = "URI_INVALID_SCHEME_CHAR"

\* the URI with its scheme HTTP or HTTPS written in lower case
C7_LowerCase(u) ==
  IF startsWith(u, <<"H","T","T","P","S",":">>) THEN <<"h","t","t","p","s",":">> \o Tail_(u, 7)
  ELSE IF startsWith(u, <<"H","T","T","P",":">>) THEN <<"h","t","t","p",":">> \o Tail_(u, 6)
  ELSE u

\* C7: checkHttpURL accepts the scheme written HTTP as it does http, and
\* checkHttpsURL HTTPS as it does https: when the lower-case spelling of
\* the URI yields a success record, the upper-case spelling does too.
C7_UpperCaseSchemeAccepted ==
  (Done /\ entry \in HttpEntries /\ uriType = "string"
     /\ rec.scheme \in {<<"H","T","T","P">>, <<"H","T","T","P","S">>}
     /\ checkHttpURL("string", C7_LowerCase(uri), options) = "none") =>
    result = "valid"

\* the failures of the stages, in the order of the claim
C8_StageErrors ==
  << checkURISyntax(uriType, uri),
     checkSchemeChars(rec.scheme),
     IF exists(rec.authority) THEN scanUserinfo(rec.userinfo, 0) ELSE "none",
     IF exists(rec.authority) THEN checkHost(rec.host) ELSE "none",
     IF exists(rec.authority) THEN checkPort(rec.port) ELSE "none",
     scanPathqf(rec.pathqf, 0, options.sitemap = "true"),
     checkSchemeRestriction(options, rec.scheme),
     checkAuthorityPresence(rec.authority) >>

\* the codes each stage reports
C8_StageCodes ==
  << {"URI_INVALID_TYPE", "URI_MISSING_SCHEME", "URI_EMPTY_SCHEME",
      "URI_MISSING_PATH", "URI_INVALID_PATH", "URI_INVALID_HOST"},
     {"URI_INVALID_SCHEME_CHAR"},
     {"URI_INVALID_USERINFO_CHAR", "URI_INVALID_PERCENT_ENCODING"},
     {"URI_INVALID_HOST"},
     {"URI_INVALID_PORT"},
     {"URI_INVALID_CHAR", "URI_INVALID_PERCENT_ENCODING", "URI_INVALID_SITEMAP_CHAR"},
     {"URI_INVALID_SCHEME"},
     {"URI_MISSING_AUTHORITY"} >>

\* the failure of the earliest failing stage among the first n
C8_First(errs, n) ==
  LET I == {k \in 1..n : errs[k] # "none"}
  IN  IF I = {} THEN "valid" ELSE errs[CHOOSE k \in I : \A j \in I : k <= j]

\* C8: each checker is a fail-fast linear pipeline: of several violations
\* only the one of the earliest stage is reported, in the order syntax,
\* scheme characters, userinfo, host, port, pathqf, scheme restriction,
\* authority presence; a non-http scheme with an invalid path character
\* fails with URI_INVALID_CHAR, a non-http scheme without authority with
\* URI_INVALID_SCHEME.
C8_FailFastOrder ==
  Done =>
    /\ \A k \in 1..8 : C8_StageErrors[k] \in C8_StageCodes[k] \cup {"none"}
    /\ entry \in HttpEntries => result = C8_First(C8_StageErrors, 8)
    /\ entry = "checkURI" => result = C8_First(C8_StageErrors, 6)
    /\ entry = "checkURISyntax" => result = C8_First(C8_StageErrors, 1)
    /\ (entry \in HttpEntries
          /\ C8_First(C8_StageErrors, 5) = "valid"
          /\ C8_StageErrors[6] = "URI_INVALID_CHAR"
          /\ C8_StageErrors[7] # "none") =>
         result = "URI_INVALID_CHAR"
    /\ (entry \in HttpEntries
          /\ C8_First(C8_StageErrors, 6) = "valid"
          /\ C8_StageErrors[7] # "none"
          /\ C8_StageErrors[8] # "none") =>
         result = "URI_INVALID_SCHEME"

C8_Witness ==
  /\ Done
  /\ entry \in HttpEntries
  /\ rec.scheme = <<"m","a","i","l","t","o">>
  /\ rec.authority = undefined
  /\ result = "URI_INVALID_SCHEME"

\* C10: with https and web both true, https takes precedence: only https
\* is allowed, and an otherwise valid http URL fails with
\* URI_INVALID_SCHEME; an option is recognised only when it is true, every
\* other value leaves the default.
C10_OptionPrecedence ==
  /\ (Done /\ entry = "checkHttpURL"
        /\ options.https = "true" /\ options.web = "true") =>
       /\ result = "valid" => rec.scheme = <<"h","t","t","p","s">>
       /\ (checkURI(uriType, uri, options.sitemap) = "none"
             /\ rec.scheme = <<"h","t","t","p">>) =>
            result = "URI_INVALID_SCHEME"
  /\ (Done /\ entry = "checkHttpURL"
        /\ options.https # "true" /\ options.web # "true") =>
       /\ result = "valid" => rec.scheme = <<"h","t","t","p">>
       /\ (checkURI(uriType, uri, options.sitemap) = "none"
             /\ isString(rec.authority)
             /\ rec.scheme = <<"h","t","t","p">>) =>
            result = "valid"
  /\ (Done /\ entry \in {"checkURI", "checkHttpURL"} /\ options.sitemap # "true") =>
       result # "URI_INVALID_SITEMAP_CHAR"
  /\ (Done /\ entry = "checkURI" /\ options.sitemap # "true"
        /\ uri = <<"U","R","L","A","B">>) =>
       result = "valid"

C10_Witness ==
  /\ Done
  /\ entry = "checkHttpURL"
  /\ options.https = "true" /\ options.web = "true"
  /\ rec.scheme = <<"h","t","t","p">>
  /\ isString(rec.authority)
  /\ result = "URI_INVALID_SCHEME"

====
